---- MODULE Spec2Model ----
\* State-machine model of .github/scripts/monitor_news.py: one run of main()
\* over the configured feeds, with parse_with_llm, is_duplicate and
\* create_pull_request translated from their code.
EXTENDS Integers, Sequences, FiniteSets, TLC

\* pc             where main() stands: "start", "feed", "entries", "done", "crashed"
\*                ("unit", when is_duplicate is exercised on its own)
\* current_data   the collection in memory (None before it is loaded)
\* disk           the content of data/incidents.json
\* new_incidents  the batch of accepted candidates
\* feedIdx        index in SOURCES of the feed being processed
\* feedLen        number of entries of that feed
\* entryIdx       number of entries of that feed already processed
\* entriesSeen    number of entries fetched so far in the run, over all feeds
\* hostCalls      the requests sent to the repository host, in order
\* stagingCalls   number of calls of create_pull_request
\* semanticMerges number of is_duplicate calls that merged on a "true" verdict
\* failedOpen     candidates whose comparison request raised
\* last           the most recent is_duplicate call exercised on its own
\* env            the process environment as the run has read it:
\*                OPENAI_API_KEY, and GITHUB_REPOSITORY and GITHUB_TOKEN
\*                ("unread" until create_pull_request reads them, then "set"
\*                or "unset")
\* feedsFetched   number of feed requests issued
\* entriesProcessed number of entries the loop body was run for
\* judgedDuplicate  candidates for which is_duplicate, exercised on its own,
\*                returned true
\* parsed         the most recent parse_with_llm call exercised on its own
VARIABLES pc, current_data, disk, new_incidents, feedIdx, feedLen, entryIdx,
          entriesSeen, hostCalls, stagingCalls, semanticMerges, failedOpen, last,
          env, feedsFetched, entriesProcessed, judgedDuplicate, parsed

vars == <<pc, current_data, disk, new_incidents, feedIdx, feedLen, entryIdx,
          entriesSeen, hostCalls, stagingCalls, semanticMerges, failedOpen, last,
          env, feedsFetched, entriesProcessed, judgedDuplicate, parsed>>

----------------------------------------------------------------------------
\* Bounds of the model.

\* Largest number of incidents in the store file at the start of a run.
MaxExisting == 2
\* Largest number of feed entries of one run, over all feeds.
MaxEntries == 3
\* Largest number of consecutive is_duplicate calls exercised on their own.
MaxCalls == 2

----------------------------------------------------------------------------
\* Text: a Python string is the sequence of its code points.

\* The characters str.strip() removes: those str.isspace() accepts.
Whitespace ==
    {9, 10, 11, 12, 13, 28, 29, 30, 31, 32, 133, 160, 5760, 8192, 8193,
     8194, 8195, 8196, 8197, 8198, 8199, 8200, 8201, 8202, 8232, 8233,
     8239, 8287, 12288}

\* The code points str.lower() maps to one other code point, as runs
\* <<first, last, step, delta>>: every step-th code point c from first to
\* last has the lower case c + delta.
LowerRuns ==
    {<<65, 90, 1, 32>>, <<192, 214, 1, 32>>, <<216, 222, 1, 32>>,
     <<256, 302, 2, 1>>, <<306, 310, 2, 1>>, <<313, 327, 2, 1>>,
     <<330, 374, 2, 1>>, <<376, 376, 1, -121>>, <<377, 381, 2, 1>>,
     <<385, 385, 1, 210>>, <<386, 388, 2, 1>>, <<390, 390, 1, 206>>,
     <<391, 391, 1, 1>>, <<393, 394, 1, 205>>, <<395, 395, 1, 1>>,
     <<398, 398, 1, 79>>, <<399, 399, 1, 202>>, <<400, 400, 1, 203>>,
     <<401, 401, 1, 1>>, <<403, 403, 1, 205>>, <<404, 404, 1, 207>>,
     <<406, 406, 1, 211>>, <<407, 407, 1, 209>>, <<408, 408, 1, 1>>,
     <<412, 412, 1, 211>>, <<413, 413, 1, 213>>, <<415, 415, 1, 214>>,
     <<416, 420, 2, 1>>, <<422, 422, 1, 218>>, <<423, 423, 1, 1>>,
     <<425, 425, 1, 218>>, <<428, 428, 1, 1>>, <<430, 430, 1, 218>>,
     <<431, 431, 1, 1>>, <<433, 434, 1, 217>>, <<435, 437, 2, 1>>,
     <<439, 439, 1, 219>>, <<440, 440, 1, 1>>, <<444, 444, 1, 1>>,
     <<452, 452, 1, 2>>, <<453, 453, 1, 1>>, <<455, 455, 1, 2>>,
     <<456, 456, 1, 1>>, <<458, 458, 1, 2>>, <<459, 475, 2, 1>>,
     <<478, 494, 2, 1>>, <<497, 497, 1, 2>>, <<498, 500, 2, 1>>,
     <<502, 502, 1, -97>>, <<503, 503, 1, -56>>, <<504, 542, 2, 1>>,
     <<544, 544, 1, -130>>, <<546, 562, 2, 1>>, <<570, 570, 1, 10795>>,
     <<571, 571, 1, 1>>, <<573, 573, 1, -163>>, <<574, 574, 1, 10792>>,
     <<577, 577, 1, 1>>, <<579, 579, 1, -195>>, <<580, 580, 1, 69>>,
     <<581, 581, 1, 71>>, <<582, 590, 2, 1>>, <<880, 882, 2, 1>>,
     <<886, 886, 1, 1>>, <<895, 895, 1, 116>>, <<902, 902, 1, 38>>,
     <<904, 906, 1, 37>>, <<908, 908, 1, 64>>, <<910, 911, 1, 63>>,
     <<913, 929, 1, 32>>, <<931, 939, 1, 32>>, <<975, 975, 1, 8>>,
     <<984, 1006, 2, 1>>, <<1012, 1012, 1, -60>>, <<1015, 1015, 1, 1>>,
     <<1017, 1017, 1, -7>>, <<1018, 1018, 1, 1>>, <<1021, 1023, 1, -130>>,
     <<1024, 1039, 1, 80>>, <<1040, 1071, 1, 32>>, <<1120, 1152, 2, 1>>,
     <<1162, 1214, 2, 1>>, <<1216, 1216, 1, 15>>, <<1217, 1229, 2, 1>>,
     <<1232, 1326, 2, 1>>, <<1329, 1366, 1, 48>>, <<4256, 4293, 1, 7264>>,
     <<4295, 4295, 1, 7264>>, <<4301, 4301, 1, 7264>>,
     <<5024, 5103, 1, 38864>>, <<5104, 5109, 1, 8>>,
     <<7312, 7354, 1, -3008>>, <<7357, 7359, 1, -3008>>,
     <<7680, 7828, 2, 1>>, <<7838, 7838, 1, -7615>>, <<7840, 7934, 2, 1>>,
     <<7944, 7951, 1, -8>>, <<7960, 7965, 1, -8>>, <<7976, 7983, 1, -8>>,
     <<7992, 7999, 1, -8>>, <<8008, 8013, 1, -8>>, <<8025, 8031, 2, -8>>,
     <<8040, 8047, 1, -8>>, <<8072, 8079, 1, -8>>, <<8088, 8095, 1, -8>>,
     <<8104, 8111, 1, -8>>, <<8120, 8121, 1, -8>>, <<8122, 8123, 1, -74>>,
     <<8124, 8124, 1, -9>>, <<8136, 8139, 1, -86>>, <<8140, 8140, 1, -9>>,
     <<8152, 8153, 1, -8>>, <<8154, 8155, 1, -100>>, <<8168, 8169, 1, -8>>,
     <<8170, 8171, 1, -112>>, <<8172, 8172, 1, -7>>,
     <<8184, 8185, 1, -128>>, <<8186, 8187, 1, -126>>,
     <<8188, 8188, 1, -9>>, <<8486, 8486, 1, -7517>>,
     <<8490, 8490, 1, -8383>>, <<8491, 8491, 1, -8262>>,
     <<8498, 8498, 1, 28>>, <<8544, 8559, 1, 16>>, <<8579, 8579, 1, 1>>,
     <<9398, 9423, 1, 26>>, <<11264, 11311, 1, 48>>,
     <<11360, 11360, 1, 1>>, <<11362, 11362, 1, -10743>>,
     <<11363, 11363, 1, -3814>>, <<11364, 11364, 1, -10727>>,
     <<11367, 11371, 2, 1>>, <<11373, 11373, 1, -10780>>,
     <<11374, 11374, 1, -10749>>, <<11375, 11375, 1, -10783>>,
     <<11376, 11376, 1, -10782>>, <<11378, 11378, 1, 1>>,
     <<11381, 11381, 1, 1>>, <<11390, 11391, 1, -10815>>,
     <<11392, 11490, 2, 1>>, <<11499, 11501, 2, 1>>,
     <<11506, 11506, 1, 1>>, <<42560, 42604, 2, 1>>,
     <<42624, 42650, 2, 1>>, <<42786, 42798, 2, 1>>,
     <<42802, 42862, 2, 1>>, <<42873, 42875, 2, 1>>,
     <<42877, 42877, 1, -35332>>, <<42878, 42886, 2, 1>>,
     <<42891, 42891, 1, 1>>, <<42893, 42893, 1, -42280>>,
     <<42896, 42898, 2, 1>>, <<42902, 42920, 2, 1>>,
     <<42922, 42922, 1, -42308>>, <<42923, 42923, 1, -42319>>,
     <<42924, 42924, 1, -42315>>, <<42925, 42925, 1, -42305>>,
     <<42926, 42926, 1, -42308>>, <<42928, 42928, 1, -42258>>,
     <<42929, 42929, 1, -42282>>, <<42930, 42930, 1, -42261>>,
     <<42931, 42931, 1, 928>>, <<42932, 42946, 2, 1>>,
     <<42948, 42948, 1, -48>>, <<42949, 42949, 1, -42307>>,
     <<42950, 42950, 1, -35384>>, <<42951, 42953, 2, 1>>,
     <<42960, 42960, 1, 1>>, <<42966, 42968, 2, 1>>,
     <<42997, 42997, 1, 1>>, <<65313, 65338, 1, 32>>,
     <<66560, 66599, 1, 40>>, <<66736, 66771, 1, 40>>,
     <<66928, 66938, 1, 39>>, <<66940, 66954, 1, 39>>,
     <<66956, 66962, 1, 39>>, <<66964, 66965, 1, 39>>,
     <<68736, 68786, 1, 64>>, <<71840, 71871, 1, 32>>,
     <<93760, 93791, 1, 32>>, <<125184, 125217, 1, 34>>}

InRun(c, r) == r[1] <= c /\ c <= r[2] /\ (c - r[1]) % r[3] = 0

Uppers == {c \in UNION {r[1]..r[2] : r \in LowerRuns} :
              \E r \in LowerRuns : InRun(c, r)}

ToLower == [c \in Uppers |-> c + (CHOOSE r \in LowerRuns : InRun(c, r))[4]]

\* The one code point whose lower case is two code points: U+0130, to "i"
\* and the combining dot above.
DOTTED_CAPITAL_I == 304
DOTTED_LOWER_I == <<105, 775>>

\* str.lower() on a string of one character.
LowerChar(c) ==
    IF c = DOTTED_CAPITAL_I THEN DOTTED_LOWER_I
    ELSE IF c \in Uppers THEN <<ToLower[c]>>
    ELSE <<c>>

\* Code points with the Unicode property Cased, and those with the property
\* Case_Ignorable, as runs <<first, last>>.
CasedRuns ==
    {<<65, 90>>, <<97, 122>>, <<170, 170>>, <<181, 181>>, <<186, 186>>,
     <<192, 214>>, <<216, 246>>, <<248, 442>>, <<444, 447>>, <<452, 659>>,
     <<661, 696>>, <<704, 705>>, <<736, 740>>, <<837, 837>>, <<880, 883>>,
     <<886, 887>>, <<890, 893>>, <<895, 895>>, <<902, 902>>, <<904, 906>>,
     <<908, 908>>, <<910, 929>>, <<931, 1013>>, <<1015, 1153>>,
     <<1162, 1327>>, <<1329, 1366>>, <<1376, 1416>>, <<4256, 4293>>,
     <<4295, 4295>>, <<4301, 4301>>, <<4304, 4346>>, <<4349, 4351>>,
     <<5024, 5109>>, <<5112, 5117>>, <<7296, 7304>>, <<7312, 7354>>,
     <<7357, 7359>>, <<7424, 7615>>, <<7680, 7957>>, <<7960, 7965>>,
     <<7968, 8005>>, <<8008, 8013>>, <<8016, 8023>>, <<8025, 8025>>,
     <<8027, 8027>>, <<8029, 8029>>, <<8031, 8061>>, <<8064, 8116>>,
     <<8118, 8124>>, <<8126, 8126>>, <<8130, 8132>>, <<8134, 8140>>,
     <<8144, 8147>>, <<8150, 8155>>, <<8160, 8172>>, <<8178, 8180>>,
     <<8182, 8188>>, <<8305, 8305>>, <<8319, 8319>>, <<8336, 8348>>,
     <<8450, 8450>>, <<8455, 8455>>, <<8458, 8467>>, <<8469, 8469>>,
     <<8473, 8477>>, <<8484, 8484>>, <<8486, 8486>>, <<8488, 8488>>,
     <<8490, 8493>>, <<8495, 8500>>, <<8505, 8505>>, <<8508, 8511>>,
     <<8517, 8521>>, <<8526, 8526>>, <<8544, 8575>>, <<8579, 8580>>,
     <<9398, 9449>>, <<11264, 11492>>, <<11499, 11502>>, <<11506, 11507>>,
     <<11520, 11557>>, <<11559, 11559>>, <<11565, 11565>>,
     <<42560, 42605>>, <<42624, 42653>>, <<42786, 42887>>,
     <<42891, 42894>>, <<42896, 42954>>, <<42960, 42961>>,
     <<42963, 42963>>, <<42965, 42969>>, <<42997, 42998>>,
     <<43000, 43002>>, <<43824, 43866>>, <<43868, 43880>>,
     <<43888, 43967>>, <<64256, 64262>>, <<64275, 64279>>,
     <<65313, 65338>>, <<65345, 65370>>, <<66560, 66639>>,
     <<66736, 66771>>, <<66776, 66811>>, <<66928, 66938>>,
     <<66940, 66954>>, <<66956, 66962>>, <<66964, 66965>>,
     <<66967, 66977>>, <<66979, 66993>>, <<66995, 67001>>,
     <<67003, 67004>>, <<67456, 67456>>, <<67459, 67461>>,
     <<67463, 67504>>, <<67506, 67514>>, <<68736, 68786>>,
     <<68800, 68850>>, <<71840, 71903>>, <<93760, 93823>>,
     <<119808, 119892>>, <<119894, 119964>>, <<119966, 119967>>,
     <<119970, 119970>>, <<119973, 119974>>, <<119977, 119980>>,
     <<119982, 119993>>, <<119995, 119995>>, <<119997, 120003>>,
     <<120005, 120069>>, <<120071, 120074>>, <<120077, 120084>>,
     <<120086, 120092>>, <<120094, 120121>>, <<120123, 120126>>,
     <<120128, 120132>>, <<120134, 120134>>, <<120138, 120144>>,
     <<120146, 120485>>, <<120488, 120512>>, <<120514, 120538>>,
     <<120540, 120570>>, <<120572, 120596>>, <<120598, 120628>>,
     <<120630, 120654>>, <<120656, 120686>>, <<120688, 120712>>,
     <<120714, 120744>>, <<120746, 120770>>, <<120772, 120779>>,
     <<122624, 122633>>, <<122635, 122654>>, <<125184, 125251>>,
     <<127280, 127305>>, <<127312, 127337>>, <<127344, 127369>>}

CaseIgnorableRuns ==
    {<<39, 39>>, <<46, 46>>, <<58, 58>>, <<94, 94>>, <<96, 96>>,
     <<168, 168>>, <<173, 173>>, <<175, 175>>, <<180, 180>>, <<183, 184>>,
     <<688, 879>>, <<884, 885>>, <<890, 890>>, <<900, 901>>, <<903, 903>>,
     <<1155, 1161>>, <<1369, 1369>>, <<1375, 1375>>, <<1425, 1469>>,
     <<1471, 1471>>, <<1473, 1474>>, <<1476, 1477>>, <<1479, 1479>>,
     <<1524, 1524>>, <<1536, 1541>>, <<1552, 1562>>, <<1564, 1564>>,
     <<1600, 1600>>, <<1611, 1631>>, <<1648, 1648>>, <<1750, 1757>>,
     <<1759, 1768>>, <<1770, 1773>>, <<1807, 1807>>, <<1809, 1809>>,
     <<1840, 1866>>, <<1958, 1968>>, <<2027, 2037>>, <<2042, 2042>>,
     <<2045, 2045>>, <<2070, 2093>>, <<2137, 2139>>, <<2184, 2184>>,
     <<2192, 2193>>, <<2200, 2207>>, <<2249, 2306>>, <<2362, 2362>>,
     <<2364, 2364>>, <<2369, 2376>>, <<2381, 2381>>, <<2385, 2391>>,
     <<2402, 2403>>, <<2417, 2417>>, <<2433, 2433>>, <<2492, 2492>>,
     <<2497, 2500>>, <<2509, 2509>>, <<2530, 2531>>, <<2558, 2558>>,
     <<2561, 2562>>, <<2620, 2620>>, <<2625, 2626>>, <<2631, 2632>>,
     <<2635, 2637>>, <<2641, 2641>>, <<2672, 2673>>, <<2677, 2677>>,
     <<2689, 2690>>, <<2748, 2748>>, <<2753, 2757>>, <<2759, 2760>>,
     <<2765, 2765>>, <<2786, 2787>>, <<2810, 2815>>, <<2817, 2817>>,
     <<2876, 2876>>, <<2879, 2879>>, <<2881, 2884>>, <<2893, 2893>>,
     <<2901, 2902>>, <<2914, 2915>>, <<2946, 2946>>, <<3008, 3008>>,
     <<3021, 3021>>, <<3072, 3072>>, <<3076, 3076>>, <<3132, 3132>>,
     <<3134, 3136>>, <<3142, 3144>>, <<3146, 3149>>, <<3157, 3158>>,
     <<3170, 3171>>, <<3201, 3201>>, <<3260, 3260>>, <<3263, 3263>>,
     <<3270, 3270>>, <<3276, 3277>>, <<3298, 3299>>, <<3328, 3329>>,
     <<3387, 3388>>, <<3393, 3396>>, <<3405, 3405>>, <<3426, 3427>>,
     <<3457, 3457>>, <<3530, 3530>>, <<3538, 3540>>, <<3542, 3542>>,
     <<3633, 3633>>, <<3636, 3642>>, <<3654, 3662>>, <<3761, 3761>>,
     <<3764, 3772>>, <<3782, 3782>>, <<3784, 3789>>, <<3864, 3865>>,
     <<3893, 3893>>, <<3895, 3895>>, <<3897, 3897>>, <<3953, 3966>>,
     <<3968, 3972>>, <<3974, 3975>>, <<3981, 3991>>, <<3993, 4028>>,
     <<4038, 4038>>, <<4141, 4144>>, <<4146, 4151>>, <<4153, 4154>>,
     <<4157, 4158>>, <<4184, 4185>>, <<4190, 4192>>, <<4209, 4212>>,
     <<4226, 4226>>, <<4229, 4230>>, <<4237, 4237>>, <<4253, 4253>>,
     <<4348, 4348>>, <<4957, 4959>>, <<5906, 5908>>, <<5938, 5939>>,
     <<5970, 5971>>, <<6002, 6003>>, <<6068, 6069>>, <<6071, 6077>>,
     <<6086, 6086>>, <<6089, 6099>>, <<6103, 6103>>, <<6109, 6109>>,
     <<6155, 6159>>, <<6211, 6211>>, <<6277, 6278>>, <<6313, 6313>>,
     <<6432, 6434>>, <<6439, 6440>>, <<6450, 6450>>, <<6457, 6459>>,
     <<6679, 6680>>, <<6683, 6683>>, <<6742, 6742>>, <<6744, 6750>>,
     <<6752, 6752>>, <<6754, 6754>>, <<6757, 6764>>, <<6771, 6780>>,
     <<6783, 6783>>, <<6823, 6823>>, <<6832, 6862>>, <<6912, 6915>>,
     <<6964, 6964>>, <<6966, 6970>>, <<6972, 6972>>, <<6978, 6978>>,
     <<7019, 7027>>, <<7040, 7041>>, <<7074, 7077>>, <<7080, 7081>>,
     <<7083, 7085>>, <<7142, 7142>>, <<7144, 7145>>, <<7149, 7149>>,
     <<7151, 7153>>, <<7212, 7219>>, <<7222, 7223>>, <<7288, 7293>>,
     <<7376, 7378>>, <<7380, 7392>>, <<7394, 7400>>, <<7405, 7405>>,
     <<7412, 7412>>, <<7416, 7417>>, <<7468, 7530>>, <<7544, 7544>>,
     <<7579, 7679>>, <<8125, 8125>>, <<8127, 8129>>, <<8141, 8143>>,
     <<8157, 8159>>, <<8173, 8175>>, <<8189, 8190>>, <<8203, 8207>>,
     <<8216, 8217>>, <<8228, 8228>>, <<8231, 8231>>, <<8234, 8238>>,
     <<8288, 8292>>, <<8294, 8303>>, <<8305, 8305>>, <<8319, 8319>>,
     <<8336, 8348>>, <<8400, 8432>>, <<11388, 11389>>, <<11503, 11505>>,
     <<11631, 11631>>, <<11647, 11647>>, <<11744, 11775>>,
     <<11823, 11823>>, <<12293, 12293>>, <<12330, 12333>>,
     <<12337, 12341>>, <<12347, 12347>>, <<12441, 12446>>,
     <<12540, 12542>>, <<40981, 40981>>, <<42232, 42237>>,
     <<42508, 42508>>, <<42607, 42610>>, <<42612, 42621>>,
     <<42623, 42623>>, <<42652, 42655>>, <<42736, 42737>>,
     <<42752, 42785>>, <<42864, 42864>>, <<42888, 42890>>,
     <<42994, 42996>>, <<43000, 43001>>, <<43010, 43010>>,
     <<43014, 43014>>, <<43019, 43019>>, <<43045, 43046>>,
     <<43052, 43052>>, <<43204, 43205>>, <<43232, 43249>>,
     <<43263, 43263>>, <<43302, 43309>>, <<43335, 43345>>,
     <<43392, 43394>>, <<43443, 43443>>, <<43446, 43449>>,
     <<43452, 43453>>, <<43471, 43471>>, <<43493, 43494>>,
     <<43561, 43566>>, <<43569, 43570>>, <<43573, 43574>>,
     <<43587, 43587>>, <<43596, 43596>>, <<43632, 43632>>,
     <<43644, 43644>>, <<43696, 43696>>, <<43698, 43700>>,
     <<43703, 43704>>, <<43710, 43711>>, <<43713, 43713>>,
     <<43741, 43741>>, <<43756, 43757>>, <<43763, 43764>>,
     <<43766, 43766>>, <<43867, 43871>>, <<43881, 43883>>,
     <<44005, 44005>>, <<44008, 44008>>, <<44013, 44013>>,
     <<64286, 64286>>, <<64434, 64450>>, <<65024, 65039>>,
     <<65043, 65043>>, <<65056, 65071>>, <<65106, 65106>>,
     <<65109, 65109>>, <<65279, 65279>>, <<65287, 65287>>,
     <<65294, 65294>>, <<65306, 65306>>, <<65342, 65342>>,
     <<65344, 65344>>, <<65392, 65392>>, <<65438, 65439>>,
     <<65507, 65507>>, <<65529, 65531>>, <<66045, 66045>>,
     <<66272, 66272>>, <<66422, 66426>>, <<67456, 67461>>,
     <<67463, 67504>>, <<67506, 67514>>, <<68097, 68099>>,
     <<68101, 68102>>, <<68108, 68111>>, <<68152, 68154>>,
     <<68159, 68159>>, <<68325, 68326>>, <<68900, 68903>>,
     <<69291, 69292>>, <<69446, 69456>>, <<69506, 69509>>,
     <<69633, 69633>>, <<69688, 69702>>, <<69744, 69744>>,
     <<69747, 69748>>, <<69759, 69761>>, <<69811, 69814>>,
     <<69817, 69818>>, <<69821, 69821>>, <<69826, 69826>>,
     <<69837, 69837>>, <<69888, 69890>>, <<69927, 69931>>,
     <<69933, 69940>>, <<70003, 70003>>, <<70016, 70017>>,
     <<70070, 70078>>, <<70089, 70092>>, <<70095, 70095>>,
     <<70191, 70193>>, <<70196, 70196>>, <<70198, 70199>>,
     <<70206, 70206>>, <<70367, 70367>>, <<70371, 70378>>,
     <<70400, 70401>>, <<70459, 70460>>, <<70464, 70464>>,
     <<70502, 70508>>, <<70512, 70516>>, <<70712, 70719>>,
     <<70722, 70724>>, <<70726, 70726>>, <<70750, 70750>>,
     <<70835, 70840>>, <<70842, 70842>>, <<70847, 70848>>,
     <<70850, 70851>>, <<71090, 71093>>, <<71100, 71101>>,
     <<71103, 71104>>, <<71132, 71133>>, <<71219, 71226>>,
     <<71229, 71229>>, <<71231, 71232>>, <<71339, 71339>>,
     <<71341, 71341>>, <<71344, 71349>>, <<71351, 71351>>,
     <<71453, 71455>>, <<71458, 71461>>, <<71463, 71467>>,
     <<71727, 71735>>, <<71737, 71738>>, <<71995, 71996>>,
     <<71998, 71998>>, <<72003, 72003>>, <<72148, 72151>>,
     <<72154, 72155>>, <<72160, 72160>>, <<72193, 72202>>,
     <<72243, 72248>>, <<72251, 72254>>, <<72263, 72263>>,
     <<72273, 72278>>, <<72281, 72283>>, <<72330, 72342>>,
     <<72344, 72345>>, <<72752, 72758>>, <<72760, 72765>>,
     <<72767, 72767>>, <<72850, 72871>>, <<72874, 72880>>,
     <<72882, 72883>>, <<72885, 72886>>, <<73009, 73014>>,
     <<73018, 73018>>, <<73020, 73021>>, <<73023, 73029>>,
     <<73031, 73031>>, <<73104, 73105>>, <<73109, 73109>>,
     <<73111, 73111>>, <<73459, 73460>>, <<78896, 78904>>,
     <<92912, 92916>>, <<92976, 92982>>, <<92992, 92995>>,
     <<94031, 94031>>, <<94095, 94111>>, <<94176, 94177>>,
     <<94179, 94180>>, <<110576, 110579>>, <<110581, 110587>>,
     <<110589, 110590>>, <<113821, 113822>>, <<113824, 113827>>,
     <<118528, 118573>>, <<118576, 118598>>, <<119143, 119145>>,
     <<119155, 119170>>, <<119173, 119179>>, <<119210, 119213>>,
     <<119362, 119364>>, <<121344, 121398>>, <<121403, 121452>>,
     <<121461, 121461>>, <<121476, 121476>>, <<121499, 121503>>,
     <<121505, 121519>>, <<122880, 122886>>, <<122888, 122904>>,
     <<122907, 122913>>, <<122915, 122916>>, <<122918, 122922>>,
     <<123184, 123197>>, <<123566, 123566>>, <<123628, 123631>>,
     <<125136, 125142>>, <<125252, 125259>>, <<127995, 127999>>,
     <<917505, 917505>>, <<917536, 917631>>, <<917760, 917999>>}

Cased == UNION {r[1]..r[2] : r \in CasedRuns}
CaseIgnorable == UNION {r[1]..r[2] : r \in CaseIgnorableRuns}

\* The capital sigma and its two lower cases.
CAPITAL_SIGMA == 931
FINAL_SIGMA == 962
SMALL_SIGMA == 963

\* The sigma at position i closes a word: going back over case-ignorable
\* characters a cased one is found, going on over them none is.
IsFinalSigma(s, i) ==
    LET before == {j \in 1..(i - 1) : s[j] \notin CaseIgnorable}
        after == {j \in (i + 1)..Len(s) : s[j] \notin CaseIgnorable}
    IN  /\ before # {}
        /\ s[CHOOSE j \in before : \A k \in before : k <= j] \in Cased
        /\ \/ after = {}
           \/ s[CHOOSE j \in after : \A k \in after : j <= k] \notin Cased

\* The lower case of the character at position i of s.
LowerAt(s, i) ==
    IF s[i] = CAPITAL_SIGMA
    THEN IF IsFinalSigma(s, i) THEN <<FINAL_SIGMA>> ELSE <<SMALL_SIGMA>>
    ELSE LowerChar(s[i])

RECURSIVE LowerFrom(_, _)
LowerFrom(s, i) ==
    IF i > Len(s) THEN <<>> ELSE LowerAt(s, i) \o LowerFrom(s, i + 1)

\* str.lower()
Lower(s) == LowerFrom(s, 1)

\* str.strip(): drop leading and trailing whitespace.
Strip(s) ==
    LET keep == {i \in DOMAIN s : s[i] \notin Whitespace} IN
    IF keep = {} THEN <<>>
    ELSE LET lo == CHOOSE i \in keep : \A j \in keep : i <= j
             hi == CHOOSE i \in keep : \A j \in keep : j <= i
         IN  SubSeq(s, lo, hi)

\* Python's `sub in s` on strings.
Contains(sub, s) ==
    \E k \in 0..(Len(s) - Len(sub)) : SubSeq(s, k + 1, k + Len(sub)) = sub

TRUE_TOKEN == <<116, 114, 117, 101>>   \* "true"
FALSE_TOKEN == <<102, 97, 108, 115, 101>>   \* "false"
NULL_TOKEN == <<110, 117, 108, 108>>   \* "null"

----------------------------------------------------------------------------
\* Configuration (SOURCES).

Keywords ==
    << <<109, 97, 103, 100, 101, 98, 117, 114, 103>>,   \* "magdeburg"
       <<114, 97, 115, 115, 105, 115, 116, 105, 115, 99, 104>>,   \* "rassistisch"
       <<102, 114, 101, 109, 100, 101, 110, 102, 101, 105, 110, 100, 108, 105, 99, 104>>,   \* "fremdenfeindlich"
       <<97, 117, 115, 108, 228, 110, 100, 101, 114, 102, 101, 105, 110, 100, 108, 105, 99, 104>>,   \* "ausländerfeindlich"
       <<104, 97, 115, 115, 118, 101, 114, 98, 114, 101, 99, 104, 101, 110>>,   \* "hassverbrechen"
       <<252, 98, 101, 114, 103, 114, 105, 102, 102>>,   \* "übergriff"
       <<97, 110, 103, 114, 105, 102, 102, 32, 109, 105, 103, 114, 97, 110, 116, 101, 110>>,   \* "angriff migranten"
       <<114, 97, 115, 115, 105, 115, 109, 117, 115>> >>   \* "rassismus"

SOURCES ==
    << [name |-> "MDR Sachsen-Anhalt",
        feed |-> "https://www.mdr.de/nachrichten/index-rss.xml",
        keywords |-> Keywords],
       [name |-> "taz",
        feed |-> "https://taz.de/!p4608;rss/",
        keywords |-> Keywords] >>

----------------------------------------------------------------------------
\* Data domains the inputs are drawn from.

\* Python's None, as a record so that it compares with incident records.
None == [none |-> TRUE]
ServiceError == [error |-> "service"]

URLs == {"https://www.mdr.de/a1", "https://taz.de/a2", "https://www.mdr.de/a3"}
UnknownUrl == "https://example.org/a4"
Dates == {"2024-01-05", "2024-01-06"}

\* The site a URL belongs to, for the tests 'mdr.de' in url and 'taz.de' in url.
UrlSite(url) ==
    CASE url \in {"https://www.mdr.de/a1", "https://www.mdr.de/a3"} -> "mdr.de"
      [] url = "https://taz.de/a2" -> "taz.de"
      [] OTHER -> "other"

Source(u, n) == [url |-> u, name |-> n]

Incident(d, srcs) ==
    [date |-> d, location |-> "Hauptbahnhof", description |-> "Angriff",
     type |-> "physical_attack", status |-> "unverified", sources |-> srcs]

\* The url of every source of an incident: {source['url'] for source in inc['sources']}.
Urls(inc) == {inc.sources[i].url : i \in DOMAIN inc.sources}

UniqueUrls(srcs) == \A i, j \in DOMAIN srcs : srcs[i].url = srcs[j].url => i = j

NoSharedUrl(incs) ==
    \A i, j \in DOMAIN incs : i # j => Urls(incs[i]) \cap Urls(incs[j]) = {}

\* Source lists of a stored incident: one or two sources, unique by url.
StoredSources ==
    {<<Source(u, "taz")>> : u \in URLs}
    \cup {<<Source(u, "taz"), Source(v, "MDR Sachsen-Anhalt")>> :
             u \in URLs, v \in URLs}

StoredIncidents ==
    {Incident(d, s) : d \in Dates, s \in {t \in StoredSources : UniqueUrls(t)}}

\* The store files a run can start from: every incident has a source and no
\* two incidents share a source URL.
Stores ==
    {[incidents |-> incs, lastUpdated |-> "T0"] :
        incs \in {s \in UNION {[1..n -> StoredIncidents] : n \in 0..MaxExisting} :
                     NoSharedUrl(s)}}

----------------------------------------------------------------------------
\* extract_text_from_article

\* What the web fetcher answers for an article URL: a failed request, or a
\* page with or without an <article> element / an element of class "article",
\* whose paragraphs join to `text`.
Pages ==
    {[status |-> "error"],
     [status |-> "ok", article |-> TRUE, dotArticle |-> TRUE, text |-> <<>>]}
    \cup {[status |-> "ok", article |-> a, dotArticle |-> b,
           text |-> <<84, 101, 120, 116>>] : a \in BOOLEAN, b \in BOOLEAN}   \* "Text"

Text(t) == [text |-> t]

extract_text_from_article(url, page) ==
    IF page.status = "error" THEN None
    ELSE IF UrlSite(url) = "mdr.de" /\ page.article THEN Text(page.text)
    ELSE IF UrlSite(url) = "taz.de" /\ page.dotArticle THEN Text(page.text)
    ELSE None

\* Python truthiness of the article text: `not article_text`.
Falsy(article_text) == article_text = None \/ article_text = Text(<<>>)

----------------------------------------------------------------------------
\* parse_with_llm

\* The model's reply: a text that is not JSON (the "null" token in any case
\* and spacing, or prose), a JSON array, or a JSON object.
TextReply(t) == [kind |-> "text", text |-> t]
ObjectReply(o) == [kind |-> "object", value |-> o]
ArrayReply == [kind |-> "array"]

IncidentNoDate(srcs) ==
    [location |-> "Hauptbahnhof", description |-> "Angriff",
     type |-> "physical_attack", status |-> "unverified", sources |-> srcs]

IncidentNoSources(d) ==
    [date |-> d, location |-> "Hauptbahnhof", description |-> "Angriff",
     type |-> "physical_attack", status |-> "unverified"]

\* Variant: the article's own source is not appended to the model's list.
parse_with_llm_no_append(reply, url, source_name) ==
    IF reply.kind = "object" /\ "sources" \in DOMAIN reply.value
    THEN reply.value
    ELSE None

\* parse_with_llm after the completion call returned `reply`.
parse_with_llm(reply, url, source_name) ==
    IF reply.kind = "text"
    THEN \* "null" after strip().lower(), or json.loads raises: both give None
         IF Lower(Strip(reply.text)) = NULL_TOKEN THEN None ELSE None
    ELSE IF reply.kind = "array"
    THEN None   \* incident['sources'] on a list raises TypeError, caught
    ELSE IF "sources" \notin DOMAIN reply.value
    THEN None   \* KeyError, caught by the bare except
    ELSE [reply.value EXCEPT !.sources = Append(@, Source(url, source_name))]

----------------------------------------------------------------------------
\* is_duplicate

\* Variant: only the first existing incident is compared by URL.
ExactSourceMatchFirstOnly(new_incident, existing_incidents) ==
    /\ existing_incidents # <<>>
    /\ Urls(existing_incidents[1]) \cap Urls(new_incident) # {}

\* First loop: some existing incident shares a source URL with the candidate.
ExactSourceMatch(new_incident, existing_incidents) ==
    \E i \in DOMAIN existing_incidents :
        Urls(existing_incidents[i]) \cap Urls(new_incident) # {}

\* Variant: the date filter keeps every existing incident.
SameDateAny(new_incident, existing_incidents) == DOMAIN existing_incidents

\* Positions of same_date_incidents in existing_incidents.
SameDate(new_incident, existing_incidents) ==
    {i \in DOMAIN existing_incidents :
        existing_incidents[i].date = new_incident.date}

\* Variant: every reply but "false" counts as the same event.
IsSameUnlessFalse(content) == Lower(Strip(content)) # FALSE_TOKEN

\* The verdict read from the comparison reply.
IsSame(content) == Lower(Strip(content)) = TRUE_TOKEN

\* Variant: the candidate's new sources are put in front of the old ones.
MergeSourcesInFront(existing, new_incident) ==
    [existing EXCEPT !.sources =
        SelectSeq(new_incident.sources,
                  LAMBDA s : s.url \notin Urls(existing)) \o @]

\* Variant: the candidate's sources are assigned instead of appended.
MergeSourcesReplace(existing, new_incident) ==
    [existing EXCEPT !.sources = new_incident.sources]

\* existing['sources'].extend(s for s in new['sources'] if s['url'] not in existing_urls)
MergeSources(existing, new_incident) ==
    [existing EXCEPT !.sources =
        @ \o SelectSeq(new_incident.sources,
                       LAMBDA s : s.url \notin Urls(existing))]

\* Variant: a positive comparison leaves the existing incidents as they are.
MergeNone(new_incident, existing_incidents) == existing_incidents

\* Variant: only the first same-date incident receives the sources.
MergeFirst(new_incident, existing_incidents) ==
    LET same == SameDate(new_incident, existing_incidents)
        first == CHOOSE i \in same : \A j \in same : i <= j
    IN  [i \in DOMAIN existing_incidents |->
            IF i = first
            THEN MergeSources(existing_incidents[i], new_incident)
            ELSE existing_incidents[i]]

\* The merge loop over same_date_incidents (the dicts of the collection itself).
MergeAll(new_incident, existing_incidents) ==
    [i \in DOMAIN existing_incidents |->
        IF i \in SameDate(new_incident, existing_incidents)
        THEN MergeSources(existing_incidents[i], new_incident)
        ELSE existing_incidents[i]]

PromptFields == {"location", "description", "type"}

\* is_duplicate(new_incident, existing_incidents) when the comparison call,
\* if one is made, answers `reply` (a text, or ServiceError when it raises).
\* ret is "true", "false" or "raise"; incidents is the list after the call;
\* calls is the number of comparison requests issued.
is_duplicate(new_incident, existing_incidents, reply) ==
    IF ExactSourceMatch(new_incident, existing_incidents)
    THEN [ret |-> "true", incidents |-> existing_incidents, calls |-> 0]
    ELSE IF existing_incidents # <<>> /\ "date" \notin DOMAIN new_incident
    THEN [ret |-> "raise", incidents |-> existing_incidents, calls |-> 0]
    ELSE IF SameDate(new_incident, existing_incidents) = {}
    THEN [ret |-> "false", incidents |-> existing_incidents, calls |-> 0]
    ELSE IF ~(PromptFields \subseteq DOMAIN new_incident)
    THEN [ret |-> "raise", incidents |-> existing_incidents, calls |-> 0]
    ELSE IF reply = ServiceError
    THEN [ret |-> "raise", incidents |-> existing_incidents, calls |-> 1]
    ELSE IF IsSame(reply.text)
    THEN [ret |-> "true",
          incidents |-> MergeAll(new_incident, existing_incidents),
          calls |-> 1]
    ELSE [ret |-> "false", incidents |-> existing_incidents, calls |-> 1]

----------------------------------------------------------------------------
\* create_pull_request

\* Answers of the repository host to one request: a status code, or the request
\* raising. Each request expects one of the two codes and fails on the other.
HostStatuses == {"200", "201", "ConnectionError"}

\* The status each of the four requests must get for staging to go on.
ExpectedStatus == <<"200", "201", "200", "201">>

\* The answers of the host to the four requests of one staging sequence. A
\* request after the first failed one is never sent, so its answer is fixed.
HostAnswers ==
    {st \in [1..4 -> HostStatuses] :
        \A i \in 1..4 :
            (\E j \in 1..(i - 1) : st[j] # ExpectedStatus[j]) => st[i] = "200"}

\* len() of the argument main passes: the collection dict, so its key count.
PyLen(d) == Cardinality(DOMAIN d)

\* The requests, each with the answer it got.
GetRef(st) == [op |-> "get_ref", status |-> st]
CreateRef(st) == [op |-> "create_ref", status |-> st]
UpdateFile(content, n, st) ==
    [op |-> "update_file", content |-> content, count |-> n, status |-> st]
OpenPull(n, st) == [op |-> "open_pr", count |-> n, status |-> st]

\* The requests create_pull_request sends when it goes on whatever the answer.
StagingRequests(arg, file, status) ==
    <<GetRef(status[1]), CreateRef(status[2]),
      UpdateFile(file, PyLen(arg), status[3]), OpenPull(PyLen(arg), status[4])>>

\* Variant: a failed branch creation does not end the sequence.
create_pull_request_no_abort(arg, file, creds, status) ==
    LET all == StagingRequests(arg, file, status) IN
    IF ~creds THEN [calls |-> <<>>, raised |-> FALSE, data |-> arg]
    ELSE IF status[1] # "200"
    THEN [calls |-> SubSeq(all, 1, 1),
          raised |-> status[1] = "ConnectionError", data |-> arg]
    ELSE IF status[3] # "200"
    THEN [calls |-> SubSeq(all, 1, 3),
          raised |-> status[3] = "ConnectionError", data |-> arg]
    ELSE [calls |-> all,
          raised |-> status[4] = "ConnectionError", data |-> arg]

\* create_pull_request(new_incidents) with data/incidents.json holding `file`,
\* the repository credentials present or not, and status[i] the host's answer
\* to the i-th request. calls: the requests sent; raised: a request raised;
\* data: the argument as the call leaves it.
create_pull_request(arg, file, creds, status) ==
    LET all == StagingRequests(arg, file, status) IN
    IF ~creds THEN [calls |-> <<>>, raised |-> FALSE, data |-> arg]
    ELSE IF status[1] # "200"
    THEN [calls |-> SubSeq(all, 1, 1),
          raised |-> status[1] = "ConnectionError", data |-> arg]
    ELSE IF status[2] # "201"
    THEN [calls |-> SubSeq(all, 1, 2),
          raised |-> status[2] = "ConnectionError", data |-> arg]
    ELSE IF status[3] # "200"
    THEN [calls |-> SubSeq(all, 1, 3),
          raised |-> status[3] = "ConnectionError", data |-> arg]
    ELSE [calls |-> all,
          raised |-> status[4] = "ConnectionError", data |-> arg]

----------------------------------------------------------------------------
\* Inputs of a run.

ApiKeys == {"absent", "malformed", "sk-key"}

\* The environment at the start of a run: the API key is read at once, the
\* repository variables only by create_pull_request.
Envs ==
    {[OPENAI_API_KEY |-> k, GITHUB_REPOSITORY |-> "unread",
      GITHUB_TOKEN |-> "unread"] : k \in ApiKeys}

\* What os.environ.get answers for a repository variable.
EnvValues == {"set", "unset"}

T_MAGDEBURG == <<77, 97, 103, 100, 101, 98, 117, 114, 103>>   \* "Magdeburg"
T_WETTER == <<87, 101, 116, 116, 101, 114>>   \* "Wetter"
T_RASSISMUS == <<82, 97, 115, 115, 105, 115, 109, 117, 115>>   \* "Rassismus"

\* Feed entries: with or without title, description and link.
FeedEntries ==
    {[title |-> T_MAGDEBURG, link |-> "https://www.mdr.de/a1"],
     [title |-> T_MAGDEBURG, link |-> "https://taz.de/a2"],
     [title |-> T_MAGDEBURG, link |-> UnknownUrl],
     [title |-> T_WETTER, description |-> T_RASSISMUS,
      link |-> "https://taz.de/a2"],
     [title |-> T_WETTER, link |-> "https://www.mdr.de/a1"],
     [link |-> "https://www.mdr.de/a1"],
     [title |-> T_MAGDEBURG]}

\* Source lists the model may put in its reply.
ReplySources == {<<>>} \cup {<<Source(u, "taz")>> : u \in URLs}

ReplyObjects ==
    {Incident(d, s) : d \in Dates, s \in ReplySources}
    \cup {IncidentNoDate(<<>>)}
    \cup {IncidentNoSources(d) : d \in Dates}

\* Replies of the extraction call; ServiceError when the call raises.
ExtractReplies ==
    {TextReply(NULL_TOKEN), TextReply(<<32, 78, 117, 108, 108, 10>>),   \* " Null\n"
     TextReply(<<110, 101, 105, 110>>), ArrayReply, ServiceError}   \* "nein"
    \cup {ObjectReply(o) : o \in ReplyObjects}

\* The extraction replies drawn in a whole run: the objects among them carry
\* an empty sources list or none.
RunExtractReplies ==
    {r \in ExtractReplies :
        r # ServiceError /\ r.kind = "object" /\ "sources" \in DOMAIN r.value
            => r.value.sources = <<>>}

\* Replies of the comparison call; ServiceError when the call raises.
CompareReplies ==
    {Text(TRUE_TOKEN), Text(FALSE_TOKEN), Text(<<84, 114, 117, 101>>),   \* "True"
     Text(<<32, 116, 114, 117, 101, 10>>), Text(<<121, 101, 115>>), Text(<<>>),   \* " true\n", "yes"
     Text(<<12, 116, 114, 117, 101, 160>>),   \* "\ftrue" and a no-break space
     ServiceError}

----------------------------------------------------------------------------
\* main

NoCall == [n |-> 0]
NoParse == [called |-> FALSE]

Init ==
    /\ pc = "start"
    /\ disk \in Stores
    /\ current_data = None
    /\ new_incidents = <<>>
    /\ feedIdx = 0
    /\ feedLen = 0
    /\ entryIdx = 0
    /\ entriesSeen = 0
    /\ hostCalls = <<>>
    /\ stagingCalls = 0
    /\ semanticMerges = 0
    /\ failedOpen = {}
    /\ last = NoCall
    /\ env \in Envs
    /\ feedsFetched = 0
    /\ entriesProcessed = 0
    /\ judgedDuplicate = {}
    /\ parsed = NoParse

\* Lines 288-298: the API key check, then load_current_incidents.
Start ==
    /\ pc = "start"
    /\ LET api_key == env.OPENAI_API_KEY IN
          IF api_key # "sk-key"
          THEN /\ pc' = "done"
               /\ UNCHANGED <<current_data, feedIdx>>
          ELSE /\ pc' = "feed"
               /\ current_data' = disk
               /\ feedIdx' = 1
    /\ UNCHANGED <<disk, new_incidents, feedLen, entryIdx, entriesSeen,
                   hostCalls, stagingCalls, semanticMerges, failedOpen, last,
                   env, feedsFetched, entriesProcessed, judgedDuplicate, parsed>>

\* The loop over SOURCES moves to the next feed.
NextFeed ==
    /\ pc' = "feed"
    /\ feedIdx' = feedIdx + 1
    /\ feedLen' = 0
    /\ entryIdx' = 0

\* The loop over feed.entries moves to the next entry, or leaves the feed.
NextEntry ==
    IF entryIdx + 1 < feedLen
    THEN /\ entryIdx' = entryIdx + 1
         /\ UNCHANGED <<pc, feedIdx, feedLen>>
    ELSE NextFeed

\* Lines 301-313: fetch and parse one feed. The request raises, the feed is
\* malformed (bozo), or it holds n entries.
FetchFeed ==
    /\ pc = "feed"
    /\ feedIdx <= Len(SOURCES)
    /\ \E outcome \in {"raise", "bozo", "ok"},
          n \in 0..(MaxEntries - entriesSeen) :
          IF outcome # "ok"
          THEN NextFeed /\ UNCHANGED entriesSeen
          ELSE /\ entriesSeen' = entriesSeen + n
               /\ IF n = 0
                  THEN NextFeed
                  ELSE /\ pc' = "entries"
                       /\ feedLen' = n
                       /\ entryIdx' = 0
                       /\ UNCHANGED feedIdx
    /\ feedsFetched' = feedsFetched + 1
    /\ UNCHANGED <<current_data, disk, new_incidents, hostCalls, stagingCalls,
                   semanticMerges, failedOpen, last, env, entriesProcessed,
                   judgedDuplicate, parsed>>

\* any(keyword in entry.title.lower() or keyword in getattr(entry, 'description', '').lower() ...)
KeywordMatch(entry, keywords) ==
    LET description == IF "description" \in DOMAIN entry
                       THEN entry.description ELSE <<>>
    IN  \E k \in DOMAIN keywords :
           \/ Contains(keywords[k], Lower(entry.title))
           \/ Contains(keywords[k], Lower(description))

\* The entry changes no data (no match, no text, no incident, or an exception
\* caught at line 329).
SkipEntry ==
    /\ NextEntry
    /\ UNCHANGED <<current_data, new_incidents, semanticMerges, failedOpen>>

\* An exception outside the inner try (entry.title, entry.link) is caught at
\* line 333: the rest of the feed is skipped.
AbortFeed ==
    /\ NextFeed
    /\ UNCHANGED <<current_data, new_incidents, semanticMerges, failedOpen>>

\* Variant: an accepted candidate is put in front of the batch.
CheckIncidentInFront(incident, reply) ==
    LET r == is_duplicate(incident, current_data.incidents, reply) IN
    /\ current_data' = [current_data EXCEPT !.incidents = r.incidents]
    /\ new_incidents' = IF r.ret = "false"
                        THEN <<incident>> \o new_incidents
                        ELSE new_incidents
    /\ semanticMerges' = IF r.ret = "true" /\ r.calls = 1
                         THEN semanticMerges + 1 ELSE semanticMerges
    /\ failedOpen' = IF r.ret = "raise" /\ r.calls = 1
                     THEN failedOpen \cup {incident} ELSE failedOpen
    /\ NextEntry

\* Lines 326-331 for an incident returned by parse_with_llm.
CheckIncident(incident, reply) ==
    LET r == is_duplicate(incident, current_data.incidents, reply) IN
    /\ current_data' = [current_data EXCEPT !.incidents = r.incidents]
    /\ new_incidents' = IF r.ret = "false"
                        THEN Append(new_incidents, incident)
                        ELSE new_incidents
    /\ semanticMerges' = IF r.ret = "true" /\ r.calls = 1
                         THEN semanticMerges + 1 ELSE semanticMerges
    /\ failedOpen' = IF r.ret = "raise" /\ r.calls = 1
                     THEN failedOpen \cup {incident} ELSE failedOpen
    /\ NextEntry

\* Lines 314-331: the body of the loop over feed.entries, for one entry.
ProcessEntry ==
    /\ pc = "entries"
    /\ entryIdx < feedLen
    /\ \E entry \in FeedEntries :
          IF "title" \notin DOMAIN entry THEN AbortFeed
          ELSE IF ~KeywordMatch(entry, SOURCES[feedIdx].keywords) THEN SkipEntry
          ELSE IF "link" \notin DOMAIN entry THEN AbortFeed
          ELSE \E page \in Pages :
             LET article_text == extract_text_from_article(entry.link, page) IN
             IF Falsy(article_text) THEN SkipEntry
             ELSE \E reply \in RunExtractReplies :
                IF reply = ServiceError THEN SkipEntry
                ELSE LET incident == parse_with_llm(reply, entry.link,
                                                    SOURCES[feedIdx].name) IN
                     IF incident = None THEN SkipEntry
                     ELSE \E cmp \in CompareReplies :
                             CheckIncident(incident, cmp)
    /\ entriesProcessed' = entriesProcessed + 1
    /\ UNCHANGED <<disk, entriesSeen, hostCalls, stagingCalls, last, env,
                   feedsFetched, judgedDuplicate, parsed>>

\* Variant: the batch is appended and staged without the test `if new_incidents`.
FinalizeAlways ==
    /\ pc = "feed"
    /\ feedIdx > Len(SOURCES)
    /\ \E repo \in EnvValues, token \in EnvValues, status \in HostAnswers :
          LET creds == repo = "set" /\ token = "set"
              data == [incidents |-> current_data.incidents \o new_incidents,
                       lastUpdated |-> "now"]
              r == create_pull_request(data, disk, creds, status)
          IN  /\ env' = [env EXCEPT !.GITHUB_REPOSITORY = repo,
                                    !.GITHUB_TOKEN = token]
              /\ current_data' = r.data
              /\ stagingCalls' = stagingCalls + 1
              /\ hostCalls' = hostCalls \o r.calls
              /\ pc' = IF r.raised THEN "crashed" ELSE "done"
    /\ UNCHANGED <<disk, new_incidents, feedIdx, feedLen, entryIdx,
                   entriesSeen, semanticMerges, failedOpen, last,
                   feedsFetched, entriesProcessed, judgedDuplicate, parsed>>

\* Lines 337-340, with create_pull_request.
Finalize ==
    /\ pc = "feed"
    /\ feedIdx > Len(SOURCES)
    /\ IF new_incidents = <<>>
       THEN /\ pc' = "done"
            /\ UNCHANGED <<current_data, hostCalls, stagingCalls, env>>
       ELSE \E repo \in EnvValues, token \in EnvValues,
               status \in HostAnswers :
              LET creds == repo = "set" /\ token = "set"
                  data == [incidents |-> current_data.incidents \o new_incidents,
                           lastUpdated |-> "now"]
                  r == create_pull_request(data, disk, creds, status)
              IN  /\ env' = [env EXCEPT !.GITHUB_REPOSITORY = repo,
                                        !.GITHUB_TOKEN = token]
                  /\ current_data' = r.data
                  /\ stagingCalls' = stagingCalls + 1
                  /\ hostCalls' = hostCalls \o r.calls
                  /\ pc' = IF r.raised THEN "crashed" ELSE "done"
    /\ UNCHANGED <<disk, new_incidents, feedIdx, feedLen, entryIdx,
                   entriesSeen, semanticMerges, failedOpen, last,
                   feedsFetched, entriesProcessed, judgedDuplicate, parsed>>

Next == Start \/ FetchFeed \/ ProcessEntry \/ Finalize

Spec == Init /\ [][Next]_vars

----------------------------------------------------------------------------
\* is_duplicate exercised on its own: candidates as parse_with_llm returns
\* them, checked against the collection one after the other.

UnitCandidates ==
    {parse_with_llm(ObjectReply(o), u, SOURCES[1].name) :
        o \in ReplyObjects, u \in URLs} \ {None}

InitUnit ==
    /\ pc = "unit"
    /\ disk \in Stores
    /\ current_data = disk
    /\ new_incidents = <<>>
    /\ feedIdx = 0
    /\ feedLen = 0
    /\ entryIdx = 0
    /\ entriesSeen = 0
    /\ hostCalls = <<>>
    /\ stagingCalls = 0
    /\ semanticMerges = 0
    /\ failedOpen = {}
    /\ last = NoCall
    /\ env = [OPENAI_API_KEY |-> "sk-key", GITHUB_REPOSITORY |-> "unread",
              GITHUB_TOKEN |-> "unread"]
    /\ feedsFetched = 0
    /\ entriesProcessed = 0
    /\ judgedDuplicate = {}
    /\ parsed = NoParse

\* One call is_duplicate(cand, current_data['incidents']); `last` records the
\* candidate, the reply of the comparison request if one was issued, the
\* list before and after, the result and the number of requests.
CallIsDuplicate ==
    /\ pc = "unit"
    /\ last.n < MaxCalls
    /\ \E cand \in UnitCandidates, reply \in CompareReplies :
          LET r == is_duplicate(cand, current_data.incidents, reply) IN
          \* a call that issues no request reads no reply: one choice stands for all
          /\ (r.calls = 0 => reply = ServiceError)
          /\ last' = [n |-> last.n + 1,
                      cand |-> cand,
                      reply |-> IF r.calls = 0 THEN None ELSE reply,
                      pre |-> current_data.incidents,
                      post |-> r.incidents,
                      ret |-> r.ret,
                      calls |-> r.calls]
          /\ current_data' = [current_data EXCEPT !.incidents = r.incidents]
          /\ judgedDuplicate' = IF r.ret = "true"
                                THEN judgedDuplicate \cup {cand}
                                ELSE judgedDuplicate
    /\ UNCHANGED <<pc, disk, new_incidents, feedIdx, feedLen, entryIdx,
                   entriesSeen, hostCalls, stagingCalls, semanticMerges,
                   failedOpen, env, feedsFetched, entriesProcessed, parsed>>

NextUnit == CallIsDuplicate

SpecUnit == InitUnit /\ [][NextUnit]_vars

----------------------------------------------------------------------------
\* parse_with_llm exercised on its own: one completed extraction call per
\* step, for every reply the model may give about an article.

\* Dates before the cut-off named in the prompt (line 105).
PreCutoffDates == {"2023-12-01", "2023-12-18"}

\* The fields of an incident the prompt asks for besides sources (lines 110-115).
RequiredFields == {"date", "location", "description", "type", "status"}

\* A JSON object without one of its keys.
Without(o, f) == [k \in DOMAIN o \ {f} |-> o[k]]

\* Source lists of a reply: none, another article, or the article itself.
ParseReplySources ==
    {<<>>} \cup {<<Source(u, "taz")>> : u \in {"https://www.mdr.de/a1", "https://taz.de/a2"}}

ParseReplyObjects ==
    LET full == {Incident(d, s) : d \in Dates \cup PreCutoffDates,
                                  s \in ParseReplySources}
    IN  full
        \cup {Without(o, f) : o \in {Incident("2024-01-05", <<>>)},
                              f \in RequiredFields \cup {"sources"}}

ParseReplies ==
    {TextReply(NULL_TOKEN), TextReply(<<32, 78, 117, 108, 108, 10>>),   \* " Null\n"
     TextReply(<<110, 101, 105, 110>>), ArrayReply,   \* "nein"
     TextReply(<<11, 78, 85, 76, 76, 8195>>)}   \* a vertical tab, "NULL", an em space
    \cup {ObjectReply(o) : o \in ParseReplyObjects}

ParseUrls == {"https://www.mdr.de/a1", "https://taz.de/a2", UnknownUrl}

SourceNames == {SOURCES[i].name : i \in DOMAIN SOURCES}

InitParse ==
    /\ pc = "parse"
    /\ disk = None
    /\ current_data = None
    /\ new_incidents = <<>>
    /\ feedIdx = 0
    /\ feedLen = 0
    /\ entryIdx = 0
    /\ entriesSeen = 0
    /\ hostCalls = <<>>
    /\ stagingCalls = 0
    /\ semanticMerges = 0
    /\ failedOpen = {}
    /\ last = NoCall
    /\ env = [OPENAI_API_KEY |-> "sk-key", GITHUB_REPOSITORY |-> "unread",
              GITHUB_TOKEN |-> "unread"]
    /\ feedsFetched = 0
    /\ entriesProcessed = 0
    /\ judgedDuplicate = {}
    /\ parsed = NoParse

\* One call parse_with_llm(article_text, url, source_name) whose completion
\* request returned `reply`; `parsed` records the arguments and the result.
CallParse ==
    /\ pc = "parse"
    /\ \E reply \in ParseReplies, url \in ParseUrls, source_name \in SourceNames :
          parsed' = [called |-> TRUE, reply |-> reply, url |-> url,
                     name |-> source_name,
                     result |-> parse_with_llm(reply, url, source_name)]
    /\ UNCHANGED <<pc, current_data, disk, new_incidents, feedIdx, feedLen,
                   entryIdx, entriesSeen, hostCalls, stagingCalls,
                   semanticMerges, failedOpen, last, env, feedsFetched,
                   entriesProcessed, judgedDuplicate>>

NextParse == CallParse

SpecParse == InitParse /\ [][NextParse]_vars

----------------------------------------------------------------------------
\* Properties.

Loaded == current_data # None

\* The candidate of the last call shares a source URL with incident i of the
\* list the call was given.
SharesUrlWith(i) ==
    \E j \in DOMAIN last.pre[i].sources, k \in DOMAIN last.cand.sources :
        last.pre[i].sources[j].url = last.cand.sources[k].url

SharesUrl == \E i \in DOMAIN last.pre : SharesUrlWith(i)

HasDate == "date" \in DOMAIN last.cand

SameDateAs(i) == HasDate /\ last.pre[i].date = last.cand.date

\* The candidate's sources whose url is not among `old`, in candidate order.
FreshSources(old) ==
    SelectSeq(last.cand.sources,
              LAMBDA s : \A j \in DOMAIN old : old[j].url # s.url)

OtherFields == {"date", "location", "description", "type", "status"}

SameOtherFields(a, b) ==
    /\ DOMAIN a = DOMAIN b
    /\ \A f \in OtherFields \cap DOMAIN a : a[f] = b[f]

IsPrefix(s, t) == Len(s) <= Len(t) /\ SubSeq(t, 1, Len(s)) = s

\* C1: when main finishes, no two distinct incidents of the collection
\* (existing incidents plus the appended batch) share a source URL.
C1_NoSharedUrlAtEnd ==
    (pc = "done" /\ Loaded) => NoSharedUrl(current_data.incidents)

\* C2: with no shared source URL, at least one existing incident of the
\* candidate's date and the verdict "true", is_duplicate returns true, every
\* existing incident of that date gets its old sources followed by the
\* candidate's sources whose url it did not have, in candidate order; all
\* other incidents and fields are unchanged and no incident is added.
C2_SemanticMerge ==
    (/\ last.n > 0
     /\ ~SharesUrl
     /\ \E i \in DOMAIN last.pre : SameDateAs(i)
     /\ last.reply = Text(TRUE_TOKEN))
    => /\ last.ret = "true"
       /\ Len(last.post) = Len(last.pre)
       /\ \A i \in DOMAIN last.pre :
             IF SameDateAs(i)
             THEN /\ last.post[i].sources =
                        last.pre[i].sources \o FreshSources(last.pre[i].sources)
                  /\ SameOtherFields(last.post[i], last.pre[i])
             ELSE last.post[i] = last.pre[i]
       /\ current_data.incidents = last.post

\* Witness of C2: a "true" verdict merged the candidate into two existing
\* incidents of its date.
C2_Witness ==
    /\ last.n > 0
    /\ ~SharesUrl
    /\ last.reply = Text(TRUE_TOKEN)
    /\ Len(last.pre) = 2
    /\ SameDateAs(1) /\ SameDateAs(2)
    /\ Len(last.cand.sources) = 2
    /\ last.ret = "true"
    /\ Len(last.post[2].sources) > Len(last.pre[2].sources)

\* C3: whenever some existing incident shares a source URL with the
\* candidate, whatever its date, is_duplicate returns true, issues no
\* comparison request and leaves the whole collection unchanged.
C3_ExactSourceFirst ==
    (last.n > 0 /\ SharesUrl)
    => /\ last.ret = "true"
       /\ last.calls = 0
       /\ last.post = last.pre
       /\ current_data.incidents = last.pre

\* Witness of C3: the URL is shared with the second incident only, and the
\* first incident has the candidate's date.
C3_Witness ==
    /\ last.n > 0
    /\ Len(last.pre) = 2
    /\ ~SharesUrlWith(1) /\ SharesUrlWith(2)
    /\ SameDateAs(1)
    /\ last.ret = "true"

\* C4: a candidate whose comparison request raised is treated as not a
\* duplicate, so it is in the batch.
C4_ErrorFailsOpen ==
    \A c \in failedOpen :
        \E i \in DOMAIN new_incidents : new_incidents[i] = c

\* C5 as stated: every reply other than the literal token "true" makes
\* is_duplicate return false and merge nothing.
C5_LiteralTokenOnly ==
    (/\ last.n > 0
     /\ last.calls = 1
     /\ last.reply # ServiceError
     /\ last.reply # Text(TRUE_TOKEN))
    => (last.ret = "false" /\ last.post = last.pre)

\* C5, amended: every reply that is not "true" once surrounding whitespace
\* is stripped and letters are lowercased (the token "false" included) makes
\* is_duplicate return false and merge nothing.
C5_FailOpenOnOtherReply ==
    (/\ last.n > 0
     /\ last.calls = 1
     /\ last.reply # ServiceError
     /\ Lower(Strip(last.reply.text)) # TRUE_TOKEN)
    => /\ last.ret = "false"
       /\ last.post = last.pre
       /\ current_data.incidents = last.pre

\* Witness of C5: the reply "yes" on a same-date comparison.
C5_Witness ==
    /\ last.n > 0
    /\ last.calls = 1
    /\ last.reply = Text(<<121, 101, 115>>)   \* "yes"
    /\ \E i \in DOMAIN last.pre : SameDateAs(i)
    /\ last.ret = "false"

\* C6: when no existing incident shares a source URL with the candidate and
\* none has its date, is_duplicate returns false, issues no comparison
\* request and leaves the collection unchanged.
C6_NoSameDate ==
    (/\ last.n > 0
     /\ HasDate
     /\ ~SharesUrl
     /\ \A i \in DOMAIN last.pre : ~SameDateAs(i))
    => /\ last.ret = "false"
       /\ last.calls = 0
       /\ last.post = last.pre
       /\ current_data.incidents = last.pre

\* Witness of C6: two existing incidents, both of another date.
C6_Witness ==
    /\ last.n > 0
    /\ HasDate
    /\ ~SharesUrl
    /\ Len(last.pre) = 2
    /\ \A i \in DOMAIN last.pre : ~SameDateAs(i)
    /\ last.ret = "false"

Finished == pc \in {"done", "crashed"}

\* C7: create_pull_request is called exactly once when the batch is not
\* empty, only after every feed was processed, and with an empty batch it is
\* not called and no request reaches the repository host.
C7_StagingOnce ==
    /\ stagingCalls > 0 => (Finished /\ feedIdx > Len(SOURCES))
    /\ hostCalls # <<>> => stagingCalls > 0
    /\ Finished =>
         IF new_incidents # <<>>
         THEN stagingCalls = 1
         ELSE stagingCalls = 0 /\ hostCalls = <<>>

\* Witness of C7: a finished run that staged a batch of two.
C7_Witness ==
    /\ pc = "done"
    /\ Len(new_incidents) = 2
    /\ stagingCalls = 1
    /\ Len(hostCalls) = 4

\* C8: the content sent in the update-file request is the mutated
\* collection: existing incidents, the batch and the new lastUpdated.
C8_StagedContentIsCollection ==
    \A i \in DOMAIN hostCalls :
        hostCalls[i].op = "update_file" => hostCalls[i].content = current_data

\* C9: the number in the commit message and in the pull-request title is
\* the number of incidents added in the run.
C9_CountIsBatchSize ==
    \A i \in DOMAIN hostCalls :
        hostCalls[i].op \in {"update_file", "open_pr"}
            => hostCalls[i].count = Len(new_incidents)

\* C10 as stated: with an empty batch at the end, the collection in memory
\* equals the collection as loaded.
C10_EmptyBatchNoChange ==
    (pc = "done" /\ Loaded /\ new_incidents = <<>>) => current_data = disk

\* C10, amended: with an empty batch at the end, the collection has the
\* loaded incidents in the same order, with the same lastUpdated and the
\* same fields other than sources; every incident's sources start with its
\* loaded sources, and the collection equals the loaded one exactly when no
\* candidate was merged as a semantic duplicate.
C10_EmptyBatchOnlyMerges ==
    (pc = "done" /\ Loaded /\ new_incidents = <<>>)
    => /\ current_data.lastUpdated = disk.lastUpdated
       /\ Len(current_data.incidents) = Len(disk.incidents)
       /\ \A i \in DOMAIN disk.incidents :
             /\ SameOtherFields(current_data.incidents[i], disk.incidents[i])
             /\ IsPrefix(disk.incidents[i].sources,
                         current_data.incidents[i].sources)
       /\ (semanticMerges = 0 <=> current_data = disk)

\* Witness of C10: a finished run with an empty batch that merged a source.
C10_Witness ==
    /\ pc = "done"
    /\ Loaded
    /\ new_incidents = <<>>
    /\ semanticMerges > 0
    /\ current_data # disk

\* C11: if the API key, GITHUB_REPOSITORY or GITHUB_TOKEN is absent, the
\* run aborts before any feed is fetched (and so before any article is
\* fetched and any model call is made).
C11_CredentialsBeforeFeeds ==
    (\/ env.OPENAI_API_KEY = "absent"
     \/ env.GITHUB_REPOSITORY = "unset"
     \/ env.GITHUB_TOKEN = "unset")
    => feedsFetched = 0

\* C12: in a run that passed the credential check every configured feed is
\* attempted and every entry of every fetched feed is processed, whatever
\* failed before; no exception leaves the loops.
C12_ErrorIsolation ==
    (Finished /\ Loaded)
    => /\ feedsFetched = Len(SOURCES)
       /\ entriesProcessed = entriesSeen

\* C13: no step of a run removes an incident, and every incident's sources
\* before the step are a prefix of its sources after it.
C13_Monotonic ==
    [][(Loaded /\ Loaded')
       => /\ Len(current_data.incidents) <= Len(current_data'.incidents)
          /\ \A i \in DOMAIN current_data.incidents :
                /\ SameOtherFields(current_data'.incidents[i],
                                   current_data.incidents[i])
                /\ IsPrefix(current_data.incidents[i].sources,
                            current_data'.incidents[i].sources)]_vars

\* Witness of C13: a finished run that merged sources into an existing
\* incident and appended a batch.
C13_Witness ==
    /\ pc = "done"
    /\ Loaded
    /\ semanticMerges > 0
    /\ new_incidents # <<>>
    /\ Len(current_data.incidents) > Len(disk.incidents)
    /\ \E i \in DOMAIN disk.incidents :
          Len(current_data.incidents[i].sources) > Len(disk.incidents[i].sources)

\* C14: every incident parse_with_llm returns has sources unique by url,
\* whatever sources list the model supplied.
C14_ReturnedSourcesUnique ==
    (parsed.called /\ parsed.result # None)
    => UniqueUrls(parsed.result.sources)

\* C15: a JSON object reply that lacks date, location, description, type or
\* status makes parse_with_llm return None.
C15_MissingFieldYieldsNone ==
    (/\ parsed.called
     /\ parsed.reply.kind = "object"
     /\ ~(RequiredFields \subseteq DOMAIN parsed.reply.value))
    => parsed.result = None

\* The article's own source closes the sources of a returned incident.
EndsWithArticle(p) ==
    /\ p.result # None
    /\ Len(p.result.sources) >= 1
    /\ p.result.sources[Len(p.result.sources)] = Source(p.url, p.name)

\* C16 as stated: every JSON object reply, also one without a sources key,
\* gives an incident whose sources end with the article's (url, source_name).
C16_ObjectAlwaysGetsSource ==
    (parsed.called /\ parsed.reply.kind = "object") => EndsWithArticle(parsed)

\* C16 amended: a JSON object reply with a sources list, empty or not, gives
\* the object with the article's (url, source_name) appended to that list; a
\* reply without a sources key gives None; so every returned incident has at
\* least one source and its last source is the article.
C16_ProvenanceWhenListPresent ==
    parsed.called =>
        /\ (parsed.reply.kind = "object" /\ "sources" \in DOMAIN parsed.reply.value)
           => /\ EndsWithArticle(parsed)
              /\ parsed.result.sources
                 = Append(parsed.reply.value.sources, Source(parsed.url, parsed.name))
        /\ (parsed.reply.kind = "object" /\ "sources" \notin DOMAIN parsed.reply.value)
           => parsed.result = None
        /\ parsed.result # None => EndsWithArticle(parsed)

C16_Witness ==
    /\ parsed.called
    /\ parsed.reply.kind = "object"
    /\ "sources" \in DOMAIN parsed.reply.value
    /\ parsed.reply.value.sources = <<>>
    /\ parsed.result # None
    /\ parsed.result.sources = <<Source(parsed.url, parsed.name)>>

\* C17: a reply carrying a well-formed incident dated before the cut-off
\* makes parse_with_llm return None.
C17_PreCutoffYieldsNone ==
    (/\ parsed.called
     /\ parsed.reply.kind = "object"
     /\ "date" \in DOMAIN parsed.reply.value
     /\ parsed.reply.value.date \in PreCutoffDates)
    => parsed.result = None

\* The staging steps in the order of the code.
StepOrder == <<"get_ref", "create_ref", "update_file", "open_pr">>

CredentialsSet == env.GITHUB_REPOSITORY = "set" /\ env.GITHUB_TOKEN = "set"

\* C18: the requests to the repository host are a prefix of get ref, create
\* ref, update file, open pull request; every request but the last got the
\* answer it expects, a sequence shorter than four ends with the request that
\* failed, and the collection still is the loaded incidents followed by the
\* batch, stamped, however staging ended.
C18_StagingOrderAndAbort ==
    (Finished /\ stagingCalls = 1)
    => /\ Len(hostCalls) <= Len(StepOrder)
       /\ \A i \in DOMAIN hostCalls :
             /\ hostCalls[i].op = StepOrder[i]
             /\ i < Len(hostCalls) => hostCalls[i].status = ExpectedStatus[i]
       /\ ~CredentialsSet => hostCalls = <<>>
       /\ (CredentialsSet /\ Len(hostCalls) < Len(StepOrder))
          => /\ hostCalls # <<>>
             /\ hostCalls[Len(hostCalls)].status # ExpectedStatus[Len(hostCalls)]
       /\ current_data.lastUpdated = "now"
       /\ Len(current_data.incidents) = Len(disk.incidents) + Len(new_incidents)
       /\ SubSeq(current_data.incidents, Len(disk.incidents) + 1,
                 Len(current_data.incidents)) = new_incidents

C18_Witness ==
    /\ pc = "done"
    /\ stagingCalls = 1
    /\ new_incidents # <<>>
    /\ Len(hostCalls) = 2
    /\ hostCalls[1].status = "200"
    /\ hostCalls[2].status = "200"

\* The feed an incident of the batch was found in: its last source is the one
\* parse_with_llm appended with that feed's name.
FeedOf(inc) ==
    CHOOSE k \in DOMAIN SOURCES :
        SOURCES[k].name = inc.sources[Len(inc.sources)].name

\* One step of a run: feeds advance in list order, entries in feed order one
\* at a time, and the batch grows only at its end, by a candidate of the
\* feed being processed.
C19_Step ==
    /\ feedIdx' >= feedIdx
    /\ (pc = "feed" /\ pc' = "entries") => (feedIdx' = feedIdx /\ entryIdx' = 0)
    /\ (pc = "entries" /\ pc' = "entries")
       => (feedIdx' = feedIdx /\ entryIdx' = entryIdx + 1)
    /\ (pc = "entries" /\ pc' = "feed") => feedIdx' = feedIdx + 1
    /\ IsPrefix(new_incidents, new_incidents')
    /\ Len(new_incidents') <= Len(new_incidents) + 1
    /\ Len(new_incidents') = Len(new_incidents) + 1
       => /\ pc = "entries"
          /\ FeedOf(new_incidents'[Len(new_incidents')]) = feedIdx

\* The collection when the run has ended.
C19_Final ==
    (Finished /\ Loaded)
    => /\ \A i, j \in DOMAIN new_incidents :
             i < j => FeedOf(new_incidents[i]) <= FeedOf(new_incidents[j])
       /\ IF new_incidents # <<>>
          THEN /\ current_data.lastUpdated = "now"
               /\ Len(current_data.incidents)
                  = Len(disk.incidents) + Len(new_incidents)
               /\ \A i \in DOMAIN disk.incidents :
                     /\ SameOtherFields(current_data.incidents[i], disk.incidents[i])
                     /\ IsPrefix(disk.incidents[i].sources,
                                 current_data.incidents[i].sources)
               /\ \A k \in DOMAIN new_incidents :
                     current_data.incidents[Len(disk.incidents) + k]
                     = new_incidents[k]
          ELSE /\ current_data.lastUpdated = disk.lastUpdated
               /\ Len(current_data.incidents) = Len(disk.incidents)

\* C19: feeds are processed in list order and entries in feed order, one at a
\* time; with a non-empty batch the final collection is the loaded incidents
\* in their order followed by the accepted candidates in processing order;
\* lastUpdated is stamped exactly when the batch is non-empty.
C19_ProcessingAndAppendOrder == []C19_Final /\ [][C19_Step]_vars

C19_Witness ==
    /\ pc = "done"
    /\ Loaded
    /\ disk.incidents # <<>>
    /\ Len(new_incidents) = 2
    /\ FeedOf(new_incidents[1]) = 1
    /\ FeedOf(new_incidents[2]) = 2
    /\ current_data.lastUpdated = "now"
    /\ current_data.incidents[Len(disk.incidents) + 2] = new_incidents[2]

\* C20: a candidate with at least one source that is_duplicate once judged a
\* duplicate, by a shared URL or by a merge, is judged a duplicate by every
\* later call on the collection as it then is: through the shared-URL loop,
\* without a comparison request whatever the service would answer, and
\* without a change to the collection.
C20_RecheckIsExact ==
    \A c \in judgedDuplicate :
        Len(c.sources) >= 1
        => /\ ExactSourceMatch(c, current_data.incidents)
           /\ \A reply \in CompareReplies :
                 is_duplicate(c, current_data.incidents, reply)
                 = [ret |-> "true", incidents |-> current_data.incidents,
                    calls |-> 0]

C20_Witness ==
    /\ last.n = MaxCalls
    /\ last.ret = "true"
    /\ last.calls = 1
    /\ last.post # last.pre
    /\ last.cand \in judgedDuplicate
    /\ Cardinality(judgedDuplicate) = 2

====
